---- MODULE Spec2Model ----
(***************************************************************************)
(* A model of examples/mlp_4d.rs: a columnar ReLU MLP circuit              *)
(* (affine -> ReLU -> affine -> ReLU -> divide-by-128) that is configured, *)
(* synthesized cell by cell through a layouter, and checked by a mock      *)
(* prover against a public instance column.                                *)
(*                                                                         *)
(* Field elements are represented by their balanced integer                *)
(* representative: every value that occurs is far below the field's        *)
(* characteristic (about 2^254), so reduction modulo the field never       *)
(* wraps and i32tofelt is injective on the values used.                    *)
(***************************************************************************)
EXTENDS Integers, Sequences, FiniteSets, TLC

\* ---------------------------------------------------------------- constants

\* MyCircuit::<F, 4, 14>
LEN == 4
BITS == 14
\* DivideBy<F, 128>
Divisor == 128

\* ------------------------------------------------------------------- bounds

\* The input tensor is the harness input scaled by -MaxScale..MaxScale.
MaxScale == 2
\* A public input differs from the forward result by at most MaxDelta per entry.
MaxDelta == 1

\* ------------------------------------------------------------------ tensors

Idx == 0 .. (LEN - 1)

\* Tensor<i32> is a flat sequence with a shape; indices are 0-based.
At(t, i) == t[i + 1]
At2(t, i, j) == t[i * LEN + j + 1]

RECURSIVE SumTo(_, _)
SumTo(f, n) == IF n < 0 THEN 0 ELSE f[n] + SumTo(f, n - 1)

Max(S) == CHOOSE m \in S : \A n \in S : n <= m

\* ------------------------------------------------------ the harness's data

HarnessL0Kernel == <<10, 0, 0, -1, 0, 10, 1, 0, 0, 1, 10, 0, 1, 0, 0, 10>>
HarnessL0Bias == <<0, 0, 0, 1>>
HarnessL2Kernel == <<0, 3, 10, -1, 0, 10, 1, 0, 0, 1, 0, 12, 1, -2, 32, 0>>
HarnessL2Bias == <<0, 0, 0, 1>>
HarnessInput == <<-30, -21, 11, 40>>

\* The numerators runmlp divides by 128.
HarnessNumerators == <<531, 103, 4469, 2849>>

\* f32::round: to the nearest integer, half away from zero.
Round(n, d) ==
  IF n >= 0 THEN (2 * n + d) \div (2 * d) ELSE -((2 * (-n) + d) \div (2 * d))

\* to_int_unchecked on a finite in-range f32: the fraction is dropped.
Trunc(n, d) == IF n >= 0 THEN n \div d ELSE -((-n) \div d)

\* The same quotients with .round() left out of every entry.
HarnessPublicInputAllTrunc ==
  [n \in 1 .. LEN |-> Trunc(HarnessNumerators[n], Divisor)]

\* public_input of runmlp: three rounded quotients and one truncated.
HarnessPublicInput ==
  [n \in 1 .. LEN |->
     IF n < LEN THEN Round(HarnessNumerators[n], Divisor)
     ELSE Trunc(HarnessNumerators[n], Divisor)]

\* ------------------------------------------------- the layers' arithmetic

\* ReLu::nonlinearity
ReLu(v) == IF v < 0 THEN 0 ELSE v

\* DivideBy::<128>::nonlinearity
DivideBy(v) == Round(v, Divisor)

Nonlinearity(t, v) == IF t = "relu" THEN ReLu(v) ELSE DivideBy(v)

\* The domain of an EltwiseTable: [-2^(BITS-1), 2^(BITS-1)).
InDomain(v) == v >= -(2 ^ (BITS - 1)) /\ v < 2 ^ (BITS - 1)

\* kernel . x + bias, position i.
AffineAt(kernel, bias, v, i) ==
  SumTo([j \in Idx |-> At2(kernel, i, j) * At(v, j)], LEN - 1) + At(bias, i)

Affine(kernel, bias, v) == [n \in 1 .. LEN |-> AffineAt(kernel, bias, v, n - 1)]

Map(t, v) == [n \in 1 .. LEN |-> Nonlinearity(t, v[n])]

\* The forward pass of the network, outside the circuit.
PreRescale(inp, p0, p2) ==
  Map("relu", Affine(p2[1], p2[2], Map("relu", Affine(p0[1], p0[2], inp))))

Forward(inp, p0, p2) == Map("div", PreRescale(inp, p0, p2))

\* ------------------------------------------------------------------- state

VARIABLES
  pc,            \* position in runmlp / MockProver::run / synthesize
  input,         \* MyCircuit.input
  l0_params,     \* MyCircuit.l0_params: <<kernel, bias>>
  l2_params,     \* MyCircuit.l2_params: <<kernel, bias>>
  public_input,  \* the instance column handed to MockProver::run
  cs,            \* the constraint system built by configure
  config,        \* MyConfig
  tables,        \* per lookup table: times laid out, rows assigned
  colNext,       \* the floor planner's first free row of every advice column
  cells,         \* the assignment table: <<column, row>> -> value
  writes,        \* <<column, row>> -> number of assignments
  regions,       \* the regions laid out so far, in order
  copies,        \* equality constraints between advice cells
  bindings,      \* equality constraints <<cell, instance row>>
  x,             \* synthesize's x: the cells returned by the last layer
  failed,        \* the step whose layouter call failed, or "none"
  synthReturn,   \* what synthesize returned: "none", "Ok" or "Err"
  verdict        \* the mock prover's verdict: "none", "satisfied", "unsatisfied"

vars ==
  <<pc, input, l0_params, l2_params, public_input, cs, config, tables, colNext,
    cells, writes, regions, copies, bindings, x, failed, synthReturn, verdict>>

data == <<input, l0_params, l2_params, public_input>>
structure == <<cs, config>>
layout == <<tables, colNext, cells, writes, regions, copies, bindings, x>>

\* ------------------------------------------------------------ configure

\* advices.get_slice(&[a..b]): the columns a .. b-1, in order.
Slice(a, b) == [n \in 1 .. (b - a) |-> a + n - 1]

Cols(slice) == {slice[n] : n \in DOMAIN slice}

NumAdvice == LEN + 3

KernelSlice == Slice(0, LEN)
\* A bias slice that is off by one column.
BiasSliceOverlap == Slice(LEN + 1, LEN + 2)
BiasSlice == Slice(LEN + 2, LEN + 3)
L0InputSlice == Slice(LEN, LEN + 1)
L0OutputSlice == Slice(LEN + 1, LEN + 2)
\* An input slice that is off by one column.
L2InputSliceOverlap == Slice(LEN - 1, LEN)
L2InputSlice == Slice(LEN, LEN + 1)
L2OutputSlice == Slice(LEN + 1, LEN + 2)
L1Advices == Slice(0, LEN)
L3Advices == Slice(0, LEN)
L4Advices == Slice(0, LEN)

\* The Rc handles: relutable.clone() twice, divtable.clone() once.
L1Table == "relu"
L3Table == "relu"
\* l4 handed the ReLU handle.
L4TableRelu == "relu"
L4Table == "div"

\* Affine1dConfig::configure(cs, &[kernel, bias], input, output)
Affine1dConfigure(params, inp, out) ==
  [kind |-> "affine", kernel |-> params[1], bias |-> params[2],
   input |-> inp, output |-> out, advices |-> <<>>, table |-> "none"]

\* EltwiseConfig::configure(cs, advices, table)
EltwiseConfigure(advices, table) ==
  [kind |-> "eltwise", kernel |-> <<>>, bias |-> <<>>,
   input |-> <<>>, output |-> <<>>, advices |-> advices, table |-> table]

NoConfig ==
  [kind |-> "none", kernel |-> <<>>, bias |-> <<>>,
   input |-> <<>>, output |-> <<>>, advices |-> <<>>, table |-> "none"]

Layers == {"l0", "l1", "l2", "l3", "l4"}
TableNames == {"relu", "div"}

EmptyCs ==
  [num_advice |-> 0, num_instance |-> 0, equality |-> {}, tables |-> {},
   gates |-> 0, lookups |-> 0]

\* MyCircuit::configure
Configure ==
  /\ pc = "start"
  /\ cs' = [num_advice |-> NumAdvice,
            num_instance |-> 1,
            equality |-> {<<"advice", c>> : c \in 0 .. (NumAdvice - 1)}
                           \cup {<<"instance", 0>>},
            tables |-> {"relu", "div"},
            gates |-> 2,
            lookups |-> 3 * LEN]
  /\ config' =
       [l0 |-> Affine1dConfigure(<<KernelSlice, BiasSlice>>, L0InputSlice, L0OutputSlice),
        l1 |-> EltwiseConfigure(L1Advices, L1Table),
        l2 |-> Affine1dConfigure(<<KernelSlice, BiasSlice>>, L2InputSlice, L2OutputSlice),
        l3 |-> EltwiseConfigure(L3Advices, L3Table),
        l4 |-> EltwiseConfigure(L4Advices, L4Table)]
  /\ colNext' = [c \in 0 .. (NumAdvice - 1) |-> 0]
  /\ pc' = "configured"
  /\ UNCHANGED <<data, tables, cells, writes, regions, copies, bindings, x,
                 failed, synthReturn, verdict>>

\* ----------------------------------------------------------- the layouter

\* An assignment event is <<cell, value>>; events are applied in order.
RECURSIVE Assign(_, _)
Assign(grid, evs) ==
  IF evs = <<>> THEN grid
  ELSE Assign((evs[1][1] :> evs[1][2]) @@ grid, Tail(evs))

RECURSIVE Count(_, _)
Count(w, evs) ==
  IF evs = <<>> THEN w
  ELSE LET c == evs[1][1]
       IN Count((c :> (IF c \in DOMAIN w THEN w[c] + 1 ELSE 1)) @@ w, Tail(evs))

\* SimpleFloorPlanner: a region starts at the first row free in all its columns.
RegionStart(cols) == Max({colNext[c] : c \in cols \cap DOMAIN colNext} \cup {0})

Advance(cols, start, nrows) ==
  [c \in DOMAIN colNext |-> IF c \in cols THEN start + nrows ELSE colNext[c]]

\* ------------------------------------------------------------- the tables

\* EltwiseTable::layout: one row (x, f(x)) per x of the domain.
TableLayout(t) ==
  tables' = [tables EXCEPT ![t] = [layouts |-> @.layouts + 1,
                                   rows |-> @.rows + 2 ^ BITS]]

\* The lookup argument: (a, b) is a row of table t as laid out.
InTable(t, a, b) ==
  /\ tables[t].layouts > 0
  /\ InDomain(a)
  /\ b = Nonlinearity(t, a)

\* ------------------------------------------------------------- the layers

\* IOType::Value(tensor) and IOType::PrevAssigned(cells)
IOValue(t) == [tag |-> "Value", vals |-> t, prev |-> <<>>]
IOPrevAssigned(cs_) == [tag |-> "PrevAssigned", vals |-> <<>>, prev |-> cs_]

AffineCols(cfg) ==
  Cols(cfg.kernel) \cup Cols(cfg.bias) \cup Cols(cfg.input) \cup Cols(cfg.output)

\* The cells of an affine region that starts at row s.
KernelCell(cfg, s, i, j) == <<cfg.kernel[i + 1], s + j>>
InputCell(cfg, s, j) == <<cfg.input[1], s + j>>
BiasCell(cfg, s, i) == <<cfg.bias[1], s + i>>
OutputCell(cfg, s, i) == <<cfg.output[1], s + i>>

\* The gate of Affine1dConfig at output position i, over a grid.
AffineGate(grid, cfg, s, i) ==
  SumTo([j \in Idx |-> grid[KernelCell(cfg, s, i, j)] * grid[InputCell(cfg, s, j)]],
        LEN - 1)
    + grid[BiasCell(cfg, s, i)]

\* The values an IOType carries.
IOVals(io) ==
  IF io.tag = "Value" THEN io.vals
  ELSE [n \in 1 .. LEN |-> cells[io.prev[n]]]

\* Affine1dConfig::layout: assigns input, kernel, bias and output in one region.
AffineLayout(name, io, params) ==
  LET cfg == config[name]
      s == RegionStart(AffineCols(cfg))
      v == IOVals(io)
      inEvs == [n \in 1 .. LEN |-> <<InputCell(cfg, s, n - 1), v[n]>>]
      kEvs == [n \in 1 .. LEN * LEN |->
                 <<KernelCell(cfg, s, (n - 1) \div LEN, (n - 1) % LEN), params[1][n]>>]
      bEvs == [n \in 1 .. LEN |-> <<BiasCell(cfg, s, n - 1), params[2][n]>>]
      g1 == Assign(cells, inEvs \o kEvs \o bEvs)
      oEvs == [n \in 1 .. LEN |->
                 <<OutputCell(cfg, s, n - 1), AffineAt(params[1], params[2], v, n - 1)>>]
      out == [n \in 1 .. LEN |-> OutputCell(cfg, s, n - 1)]
  IN /\ cells' = Assign(g1, oEvs)
     /\ writes' = Count(writes, inEvs \o kEvs \o bEvs \o oEvs)
     /\ colNext' = Advance(AffineCols(cfg), s, LEN)
     /\ copies' = copies \cup
                    (IF io.tag = "PrevAssigned"
                     THEN {<<io.prev[n], InputCell(cfg, s, n - 1)>> : n \in 1 .. LEN}
                     ELSE {})
     /\ regions' = Append(regions,
                          [layer |-> name, start |-> s, src |-> io.prev, out |-> out])
     /\ x' = out

\* EltwiseConfig::layout: copies the input cells into row 0 of the region and
\* assigns the nonlinearity of each at row 1.
EltwiseLayout(name, prev) ==
  LET cfg == config[name]
      s == RegionStart(Cols(cfg.advices))
      inEvs == [n \in 1 .. LEN |-> <<<<cfg.advices[n], s>>, cells[prev[n]]>>]
      oEvs == [n \in 1 .. LEN |->
                 <<<<cfg.advices[n], s + 1>>, Nonlinearity(cfg.table, cells[prev[n]])>>]
      out == [n \in 1 .. LEN |-> <<cfg.advices[n], s + 1>>]
  IN /\ cells' = Assign(cells, inEvs \o oEvs)
     /\ writes' = Count(writes, inEvs \o oEvs)
     /\ colNext' = Advance(Cols(cfg.advices), s, 2)
     /\ copies' = copies \cup {<<prev[n], <<cfg.advices[n], s>>>> : n \in 1 .. LEN}
     /\ regions' = Append(regions,
                          [layer |-> name, start |-> s, src |-> prev, out |-> out])
     /\ x' = out

\* ------------------------------------------------------------- synthesize

\* What a call into the layouter can answer.
LayouterResults == {"ok", "error"}

\* config.relutable.layout, then config.divtable.layout
FirstTable == "relu"
\* The ReLU table laid out a second time.
SecondTableRelu == "relu"
SecondTable == "div"

\* The arguments synthesize gives the two affine layers.
L0LayoutInput == IOValue(input)
L0LayoutParams == l0_params
\* l2 fed the raw input again.
L2LayoutInputRaw == IOValue(input)
L2LayoutInput == IOPrevAssigned(x)
\* l2 given the parameters of l0.
L2LayoutParamsOfL0 == l0_params
L2LayoutParams == l2_params

\* Every output cell bound to the first instance row.
InstanceRowFirst(i) == 0

\* constrain_instance(x.cell(), config.public_output, i)
InstanceRow(i) == i

\* A `?` on a failed call: synthesize returns the error.
ReturnErr(step) ==
  /\ failed' = step
  /\ synthReturn' = "Err"
  /\ pc' = "synth_done"
  /\ UNCHANGED <<data, structure, layout, verdict>>

\* A failed call whose result is unwrapped (or that has no result type to
\* carry the error): the thread panics and synthesize never returns.
Panic(step) ==
  /\ failed' = step
  /\ pc' = "panic"
  /\ UNCHANGED <<data, structure, layout, synthReturn, verdict>>

LayoutFirstTable ==
  /\ pc = "configured"
  /\ \E r \in LayouterResults :
       IF r = "ok"
       THEN /\ TableLayout(FirstTable)
            /\ pc' = "relutable"
            /\ UNCHANGED <<data, structure, colNext, cells, writes, regions, copies,
                           bindings, x, failed, synthReturn, verdict>>
       ELSE ReturnErr("relutable")

LayoutSecondTable ==
  /\ pc = "relutable"
  /\ \E r \in LayouterResults :
       IF r = "ok"
       THEN /\ TableLayout(SecondTable)
            /\ pc' = "divtable"
            /\ UNCHANGED <<data, structure, colNext, cells, writes, regions, copies,
                           bindings, x, failed, synthReturn, verdict>>
       ELSE ReturnErr("divtable")

LayoutL0 ==
  /\ pc = "divtable"
  /\ \E r \in LayouterResults :
       IF r = "ok"
       THEN /\ AffineLayout("l0", L0LayoutInput, L0LayoutParams)
            /\ pc' = "l0"
            /\ UNCHANGED <<data, structure, tables, bindings, failed, synthReturn,
                           verdict>>
       ELSE Panic("l0")

LayoutL1 ==
  /\ pc = "l0"
  /\ \E r \in LayouterResults :
       IF r = "ok"
       THEN /\ EltwiseLayout("l1", x)
            /\ pc' = "l1"
            /\ UNCHANGED <<data, structure, tables, bindings, failed, synthReturn,
                           verdict>>
       ELSE ReturnErr("l1")

LayoutL2 ==
  /\ pc = "l1"
  /\ \E r \in LayouterResults :
       IF r = "ok"
       THEN /\ AffineLayout("l2", L2LayoutInput, L2LayoutParams)
            /\ pc' = "l2"
            /\ UNCHANGED <<data, structure, tables, bindings, failed, synthReturn,
                           verdict>>
       ELSE Panic("l2")

LayoutL3 ==
  /\ pc = "l2"
  /\ \E r \in LayouterResults :
       IF r = "ok"
       THEN /\ EltwiseLayout("l3", x)
            /\ pc' = "l3"
            /\ UNCHANGED <<data, structure, tables, bindings, failed, synthReturn,
                           verdict>>
       ELSE ReturnErr("l3")

LayoutL4 ==
  /\ pc = "l3"
  /\ \E r \in LayouterResults :
       IF r = "ok"
       THEN /\ EltwiseLayout("l4", x)
            /\ pc' = "l4"
            /\ UNCHANGED <<data, structure, tables, bindings, failed, synthReturn,
                           verdict>>
       ELSE ReturnErr("l4")

\* x.enum_map(|i, x| constrain_instance(..).unwrap()); Ok(())
\* The first n calls succeed; with n < LEN the next one fails and is unwrapped.
ConstrainInstance ==
  /\ pc = "l4"
  /\ \E n \in 0 .. LEN :
       /\ bindings' = bindings \cup {<<x[i + 1], InstanceRow(i)>> : i \in 0 .. (n - 1)}
       /\ IF n = LEN
          THEN /\ synthReturn' = "Ok"
               /\ pc' = "synth_done"
               /\ UNCHANGED failed
          ELSE /\ failed' = "bind"
               /\ pc' = "panic"
               /\ UNCHANGED synthReturn
       /\ UNCHANGED <<data, structure, tables, colNext, cells, writes, regions,
                      copies, x, verdict>>

\* ---------------------------------------------------------- the mock prover

\* The instance column, padded with zeros.
InstanceAt(row) == IF row < Len(public_input) THEN public_input[row + 1] ELSE 0

GatesHold ==
  \A k \in DOMAIN regions :
    LET r == regions[k]
        cfg == config[r.layer]
    IN cfg.kind = "affine" =>
         \A i \in Idx :
           cells[OutputCell(cfg, r.start, i)] = AffineGate(cells, cfg, r.start, i)

LookupsHold ==
  \A k \in DOMAIN regions :
    LET r == regions[k]
        cfg == config[r.layer]
    IN cfg.kind = "eltwise" =>
         \A n \in 1 .. LEN :
           InTable(cfg.table, cells[<<cfg.advices[n], r.start>>],
                   cells[<<cfg.advices[n], r.start + 1>>])

CopiesHold == \A c \in copies : cells[c[1]] = cells[c[2]]

InstanceHolds == \A b \in bindings : cells[b[1]] = InstanceAt(b[2])

Satisfied == GatesHold /\ LookupsHold /\ CopiesHold /\ InstanceHolds

\* MockProver::run(..).unwrap() on a synthesize that returned Err.
RunUnwrap ==
  /\ pc = "synth_done"
  /\ synthReturn = "Err"
  /\ pc' = "panic"
  /\ UNCHANGED <<data, structure, layout, failed, synthReturn, verdict>>

\* prover.assert_satisfied()
AssertSatisfied ==
  /\ pc = "synth_done"
  /\ synthReturn = "Ok"
  /\ verdict' = IF Satisfied THEN "satisfied" ELSE "unsatisfied"
  /\ pc' = IF Satisfied THEN "done" ELSE "panic"
  /\ UNCHANGED <<data, structure, layout, failed, synthReturn>>

\* -------------------------------------------------------------- the runs

Scaled(t, k) == [n \in DOMAIN t |-> k * t[n]]

\* An input whose first affine output leaves the table's domain.
LargeInput == <<1000, -21, 11, 900>>

Inputs ==
  {Scaled(HarnessInput, k) : k \in (-MaxScale) .. MaxScale}
    \cup {LargeInput, Scaled(LargeInput, -1)}

Params ==
  {<<HarnessL0Kernel, HarnessL0Bias>>, <<HarnessL2Kernel, HarnessL2Bias>>}

\* The forward result, moved by d at the positions of m.
Perturbed(v, m, d) == [n \in 1 .. LEN |-> IF (n - 1) \in m THEN v[n] + d ELSE v[n]]

PublicInputs(inp, p0, p2) ==
  {Perturbed(Forward(inp, p0, p2), m, d) :
     m \in SUBSET Idx, d \in (-MaxDelta) .. MaxDelta}
    \cup {HarnessPublicInput}

Init ==
  /\ pc = "start"
  /\ input \in Inputs
  /\ l0_params \in Params
  /\ l2_params \in Params
  /\ public_input \in PublicInputs(input, l0_params, l2_params)
  /\ cs = EmptyCs
  /\ config = [l \in Layers |-> NoConfig]
  /\ tables = [t \in TableNames |-> [layouts |-> 0, rows |-> 0]]
  /\ colNext = <<>>
  /\ cells = <<>>
  /\ writes = <<>>
  /\ regions = <<>>
  /\ copies = {}
  /\ bindings = {}
  /\ x = <<>>
  /\ failed = "none"
  /\ synthReturn = "none"
  /\ verdict = "none"

Next ==
  \/ Configure
  \/ LayoutFirstTable
  \/ LayoutSecondTable
  \/ LayoutL0
  \/ LayoutL1
  \/ LayoutL2
  \/ LayoutL3
  \/ LayoutL4
  \/ ConstrainInstance
  \/ RunUnwrap
  \/ AssertSatisfied

Spec == Init /\ [][Next]_vars

\* ------------------------------------------------------------- properties

IsHarness ==
  /\ input = HarnessInput
  /\ l0_params = <<HarnessL0Kernel, HarnessL0Bias>>
  /\ l2_params = <<HarnessL2Kernel, HarnessL2Bias>>

Laid(name) == \E k \in DOMAIN regions : regions[k].layer = name

Region(name) == regions[CHOOSE k \in DOMAIN regions : regions[k].layer = name]

Vals(cs_) == [n \in 1 .. Len(cs_) |-> cells[cs_[n]]]

Activations == {"l1", "l3", "l4"}

\* Some activation layer laid out so far was given a value outside the domain.
OutOfDomainInput ==
  \E k \in DOMAIN regions :
    /\ regions[k].layer \in Activations
    /\ \E n \in 1 .. LEN : ~InDomain(cells[regions[k].src[n]])

\* C1: on the harness's data the rescale layer's output cells hold
\* [4, 1, 35, 22], that vector is the public input runmlp passes, and the
\* mock prover finds the circuit satisfied against it.
C1_EndToEnd ==
  IsHarness =>
    /\ Laid("l4") => Vals(Region("l4").out) = <<4, 1, 35, 22>>
    /\ HarnessPublicInput = <<4, 1, 35, 22>>
    /\ (public_input = HarnessPublicInput /\ verdict # "none")
         => verdict = "satisfied"

C1_Witness ==
  /\ IsHarness
  /\ public_input = HarnessPublicInput
  /\ Laid("l4")
  /\ verdict = "satisfied"

\* C2: a public input that differs from the forward result in at least one
\* entry is rejected by the satisfaction check, output cell i of the rescale
\* layer being bound to row i of the instance column.
C2_Rejection ==
  /\ synthReturn = "Ok"
       => bindings = {<<Region("l4").out[i + 1], i>> : i \in Idx}
  /\ (verdict # "none" /\ public_input # Forward(input, l0_params, l2_params))
       => verdict = "unsatisfied"

C2_Witness ==
  /\ verdict = "unsatisfied"
  /\ ~OutOfDomainInput
  /\ Len(public_input) = LEN
  /\ Cardinality({n \in 1 .. LEN :
                    public_input[n] # Forward(input, l0_params, l2_params)[n]}) = 1

\* The function each activation layer is meant to apply.
C3_Function(layer, v) ==
  IF layer = "l4" THEN Round(v, Divisor) ELSE IF v < 0 THEN 0 ELSE v

\* C3: every activation layer's output cell holds function(x) when its input
\* x lies in [-2^(BITS-1), 2^(BITS-1)); when some input lies outside, the
\* layers are still laid out and it is the satisfaction check that fails.
C3_Lookup ==
  /\ \A k \in DOMAIN regions :
       regions[k].layer \in Activations =>
         \A n \in 1 .. LEN :
           LET a == cells[regions[k].src[n]]
           IN InDomain(a)
                => cells[regions[k].out[n]] = C3_Function(regions[k].layer, a)
  /\ (OutOfDomainInput /\ verdict # "none") => verdict = "unsatisfied"

C3_Witness ==
  /\ Laid("l4")
  /\ OutOfDomainInput
  /\ \E n \in 1 .. LEN : InDomain(cells[Region("l4").src[n]])
  /\ public_input = Forward(input, l0_params, l2_params)
  /\ failed = "none"
  /\ verdict = "unsatisfied"

\* C4: each output cell i of an affine layer holds sum_j K[i][j]*x[j] + B[i],
\* for l0 over the raw input and its own parameters and for l2 over the
\* cells of l1 and its own parameters.
C4_Affine ==
  \A k \in DOMAIN regions :
    regions[k].layer \in {"l0", "l2"} =>
      LET p == IF regions[k].layer = "l0" THEN l0_params ELSE l2_params
          v == IF regions[k].layer = "l0" THEN input ELSE Vals(Region("l1").out)
      IN \A i \in Idx :
           cells[regions[k].out[i + 1]] =
             SumTo([j \in Idx |-> p[1][i * LEN + j + 1] * v[j + 1]], LEN - 1)
               + p[2][i + 1]

C4_Witness ==
  /\ Laid("l2")
  /\ l0_params # l2_params
  /\ config["l0"] = config["l2"]
  /\ \E n \in 1 .. LEN : cells[Region("l2").out[n]] < 0
  /\ \E n \in 1 .. LEN : cells[Region("l2").out[n]] > 0

\* C5: each lookup table is laid out at most once, and exactly once before
\* any layer; laying out l1, l3 and l4 leaves both tables at 2^BITS rows,
\* although l1 and l3 hold the same ReLU handle.
C5_TableSharing ==
  /\ \A t \in TableNames :
       /\ tables[t].layouts <= 1
       /\ tables[t].rows = tables[t].layouts * (2 ^ BITS)
       /\ regions # <<>> => tables[t].rows = 2 ^ BITS
  /\ pc # "start" => config["l1"].table = config["l3"].table

C5_Witness ==
  /\ Laid("l1") /\ Laid("l3") /\ Laid("l4")
  /\ synthReturn = "Ok"
  /\ tables["relu"].rows = 2 ^ BITS
  /\ tables["div"].rows = 2 ^ BITS

\* C6: every (column, row) pair of the assignment table is assigned at most
\* once.
C6_SingleWriter ==
  /\ DOMAIN writes = DOMAIN cells
  /\ \A c \in DOMAIN writes : writes[c] = 1

C6_Witness ==
  /\ synthReturn = "Ok"
  /\ config["l0"] = config["l2"]
  /\ config["l1"].advices = config["l0"].kernel
  /\ config["l3"].advices = config["l4"].advices
  /\ Cardinality(DOMAIN writes) = 2 * (LEN * LEN + 3 * LEN) + 3 * (2 * LEN)

\* C7: both tables are laid out before any layer; the layers are laid out in
\* the order l0, l1, l2, l3, l4, each on the cells the one before returned
\* (l0 on raw values); output cell i is bound to instance row i only after l4.
C7_Ordering ==
  /\ regions # <<>> => \A t \in TableNames : tables[t].layouts >= 1
  /\ \A k \in DOMAIN regions :
       /\ k <= 5
       /\ regions[k].layer = <<"l0", "l1", "l2", "l3", "l4">>[k]
       /\ regions[k].src = IF k = 1 THEN <<>> ELSE regions[k - 1].out
  /\ bindings # {} =>
       /\ Len(regions) = 5
       /\ \A b \in bindings : \E i \in Idx : b = <<regions[5].out[i + 1], i>>
  /\ synthReturn = "Ok" => Cardinality(bindings) = LEN

C7_Witness ==
  /\ synthReturn = "Ok"
  /\ Len(regions) = 5
  /\ Cardinality(bindings) = LEN

\* C8: a failure of any step of synthesize reaches the caller as an error
\* result, and nothing runs after it.
C8_ErrorPropagation ==
  failed # "none" => (synthReturn = "Err" /\ verdict = "none")

\* C9: configure allocates LEN + 3 equality-enabled advice columns, one
\* equality-enabled instance column and two tables, whatever the data; l0 and
\* l2 hold the same four pairwise disjoint slices covering all columns; the
\* activations use columns 0..LEN, l1 and l3 on the ReLU table, l4 on the
\* divide-by-128 table.
C9_Configure ==
  pc # "start" =>
    /\ cs.num_advice = LEN + 3
    /\ {<<"advice", c>> : c \in 0 .. (LEN + 2)} \subseteq cs.equality
    /\ cs.num_instance = 1
    /\ <<"instance", 0>> \in cs.equality
    /\ Cardinality(cs.tables) = 2
    /\ config["l0"] = config["l2"]
    /\ Cols(config["l0"].kernel) = 0 .. (LEN - 1)
    /\ config["l0"].input = <<LEN>>
    /\ config["l0"].output = <<LEN + 1>>
    /\ config["l0"].bias = <<LEN + 2>>
    /\ AffineCols(config["l0"]) = 0 .. (LEN + 2)
    /\ Cardinality(Cols(config["l0"].kernel)) + 3 = LEN + 3
    /\ \A l \in Activations : config[l].advices = [n \in 1 .. LEN |-> n - 1]
    /\ config["l1"].table = "relu"
    /\ config["l3"].table = "relu"
    /\ config["l4"].table = "div"

C9_Witness ==
  /\ pc = "configured"
  /\ ~IsHarness
  /\ cs.num_advice = LEN + 3

\* C10: the harness's numerators are the second ReLU layer's outputs on the
\* harness's data, and rounding every quotient gives the harness's vector.
C10_Numerators ==
  /\ (IsHarness /\ Laid("l3")) => Vals(Region("l3").out) = HarnessNumerators
  /\ [n \in 1 .. LEN |-> Round(HarnessNumerators[n], Divisor)] = HarnessPublicInput

====
